---- MODULE Spec2Model ----
(***************************************************************************)
(* Radar subsystem of the simulator (simulator/src/radar.rs).              *)
(*                                                                         *)
(* Numbers.  The source computes in f64.  Here every angle is an integer   *)
(* count of eighths of a turn (TAU = 8), every coordinate an integer, and  *)
(* a width is an even count so that 0.5 * width is again on the lattice.   *)
(* A boundary ray Rotation2::new(b) * (1, 0) is kept as an integer vector  *)
(* that is a positive multiple of (cos b, sin b): is_clockwise only reads  *)
(* the sign of a cross product, which a positive factor does not change.   *)
(* An intensity is the exact quotient [num, den] of the source's division; *)
(* den = 0 is the f64 result of a division by zero (+inf when num > 0, NaN *)
(* when num = 0) and comparisons follow IEEE-754.  Powers and thresholds   *)
(* are positive integers in the unit this choice of angle unit fixes.      *)
(***************************************************************************)
EXTENDS Integers, Sequences, FiniteSets, TLC

VARIABLES
    ships,           \* sim.ships with each ship's data: handle -> ship record
    tick,            \* sim.tick(), the tick index
    debug_lines,     \* sim.emit_debug_lines: handle -> number of lines last emitted
    best_reflector,  \* tick's local best_reflector of each emitter's last pass
    result_writes,   \* per handle, the log of the last tick's writes of its result
    scanned          \* what scan last returned to the control code since the last tick

vars == <<ships, tick, debug_lines, best_reflector, result_writes, scanned>>

\* ------------------------------------------------------------------ bounds
MaxTick == 2
MaxCoord == 1
MaxHalfWidth == 5

\* --------------------------------------------------------------- constants
TAU == 8
target_cross_section == 5
n == 20

\* Option<T>: None is the empty tuple, Some(x) the one-element tuple.
None == <<>>
Some(x) == <<x>>
IsSome(o) == o # <<>>
Unwrap(o) == o[1]

Handles == DOMAIN ships
Coords == (0 - MaxCoord)..MaxCoord
Points == {<<x, y>> : x \in Coords, y \in Coords}
Bearings == 0..(TAU - 1)
Widths == {2 * k : k \in 0..MaxHalfWidth}
CtlHeadings == {0, 3}
\* The scenario's ship whose control code reconfigures its radar, and the ship
\* the surrounding simulation moves.
Controlled == {1}
Moved == {3}
Waypoints == {<<0, 0>>, <<0, 1>>, <<1, 1>>, <<-1, 0>>, <<-1, -1>>, <<0, -2>>}

\* ------------------------------------------------------------- f64 values
Num(v) == [num |-> v, den |-> 1]
IsNaN(a) == a.den = 0 /\ a.num = 0
IsFinite(a) == a.den # 0
\* a > b on f64: false when either side is NaN.
Gt(a, b) == ~IsNaN(a) /\ ~IsNaN(b) /\ a.num * b.den > b.num * a.den
\* 1.0 / a
Recip(a) == [num |-> a.den, den |-> a.num]

\* ---------------------------------------------------------------- geometry
Dirs == << <<1, 0>>, <<1, 1>>, <<0, 1>>, <<-1, 1>>,
           <<-1, 0>>, <<-1, -1>>, <<0, -1>>, <<1, -1>> >>
\* Rotation2::new(bearing).transform_vector(&vector![1.0, 0.0])
Ray(bearing) == Dirs[(bearing % TAU) + 1]
Sub(p, q) == <<p[1] - q[1], p[2] - q[2]>>
distance_squared(p, q) ==
    (p[1] - q[1]) * (p[1] - q[1]) + (p[2] - q[2]) * (p[2] - q[2])

is_clockwise(v0, v1) == (0 - v0[1]) * v1[2] + v0[2] * v1[1] > 0

\* Mutant of check_inside_beam: the full-circle case is left to the ray test.
check_inside_beam_rays_only(emitter, point) ==
    LET ray0 == Ray(emitter.start_bearing)
        ray1 == Ray(emitter.end_bearing)
        dp == Sub(point, emitter.center)
    IN IF is_clockwise(ray1, ray0)
       THEN ~is_clockwise(ray0, dp) /\ is_clockwise(ray1, dp)
       ELSE is_clockwise(ray1, dp) \/ ~is_clockwise(ray0, dp)

check_inside_beam(emitter, point) ==
    IF emitter.width >= TAU THEN TRUE
    ELSE LET ray0 == Ray(emitter.start_bearing)
             ray1 == Ray(emitter.end_bearing)
             dp == Sub(point, emitter.center)
         IN IF is_clockwise(ray1, ray0)
            THEN ~is_clockwise(ray0, dp) /\ is_clockwise(ray1, dp)
            ELSE is_clockwise(ray1, dp) \/ ~is_clockwise(ray0, dp)

compute_rssi(emitter, reflector) ==
    LET r_sq == distance_squared(emitter.center, reflector.position)
    IN [num |-> emitter.power * reflector.radar_cross_section
                    * emitter.rx_cross_section,
        den |-> TAU * emitter.width * r_sq]

\* The square of compute_approx_range (the source takes the square root).
compute_approx_range_sq(emitter) ==
    [num |-> emitter.power * target_cross_section * emitter.rx_cross_section,
     den |-> TAU * emitter.width * emitter.min_rssi]

\* ------------------------------------------------------------------- noise
\* Mutant of new_rng: the stream is not seeded from the tick index.
new_rng_unseeded(seed) == [seed |-> 0, drawn |-> 0]

new_rng(seed) == [seed |-> seed, drawn |-> 0]
\* Two StandardNormal samples of the stream, scaled by 1.0 / rssi.  The
\* samples are named by the stream's seed and their index in the stream.
noise(rng, rssi) ==
    [vector |-> [seed |-> rng.seed,
                 draws |-> <<rng.drawn + 1, rng.drawn + 2>>,
                 scale |-> Recip(rssi)],
     rng |-> [rng EXCEPT !.drawn = rng.drawn + 2]]

\* ------------------------------------------------------------ the tick pass
RadarReflector(ship) ==
    [team |-> ship.team,
     position |-> ship.position,
     velocity |-> ship.velocity,
     radar_cross_section |-> ship.radar_cross_section,
     class |-> ship.class]

\* let handle_snapshot: Vec<ShipHandle> = sim.ships.iter().cloned().collect()
HandleSnapshot(registry) == [i \in 1..Len(registry) |-> i]

\* let reflectors: Vec<RadarReflector> = handle_snapshot.iter() ... collect()
Reflectors(registry, handle_snapshot) ==
    [i \in DOMAIN handle_snapshot |-> RadarReflector(registry[handle_snapshot[i]])]

RadarEmitter(registry, handle) ==
    LET ship == registry[handle]
        radar == Unwrap(ship.radar)
        h == radar.heading + ship.heading
        w == radar.width
    IN [handle |-> handle,
        team |-> ship.team,
        center |-> ship.position,
        power |-> radar.power,
        min_rssi |-> radar.min_rssi,
        classify_rssi |-> radar.classify_rssi,
        rx_cross_section |-> radar.rx_cross_section,
        width |-> w,
        start_bearing |-> h - (w \div 2),
        end_bearing |-> h + (w \div 2)]

\* Mutant of Beats: rssi >= best_rssi.
BeatsOrTies(rssi, best_rssi) == ~IsNaN(rssi) /\ ~IsNaN(best_rssi) /\ ~Gt(best_rssi, rssi)

\* if rssi > best_rssi
Beats(rssi, best_rssi) == Gt(rssi, best_rssi)

\* Mutant of SameTeam: the team check is left out.
NoTeamCheck(emitter, reflector) == FALSE

\* if emitter.team == reflector.team { continue; }
SameTeam(emitter, reflector) == emitter.team = reflector.team

\* let mut best_rssi = emitter.min_rssi
InitialBest(emitter) == Num(emitter.min_rssi)

\* The loop over &reflectors, from index i on, with the loop's two locals.
RECURSIVE SelectFrom(_, _, _, _, _)
SelectFrom(emitter, reflectors, i, best_rssi, best) ==
    IF i > Len(reflectors) THEN [best_rssi |-> best_rssi, best_reflector |-> best]
    ELSE LET reflector == reflectors[i]
         IN IF SameTeam(emitter, reflector)
            THEN SelectFrom(emitter, reflectors, i + 1, best_rssi, best)
            ELSE IF ~check_inside_beam(emitter, reflector.position)
            THEN SelectFrom(emitter, reflectors, i + 1, best_rssi, best)
            ELSE LET rssi == compute_rssi(emitter, reflector)
                 IN IF Beats(rssi, best_rssi)
                    THEN SelectFrom(emitter, reflectors, i + 1, rssi, i)
                    ELSE SelectFrom(emitter, reflectors, i + 1, best_rssi, best)

Select(emitter, reflectors) ==
    SelectFrom(emitter, reflectors, 1, InitialBest(emitter), 0)

\* Mutant of Classify: best_rssi >= emitter.classify_rssi.
ClassifyAtThreshold(emitter, reflector, best_rssi) ==
    IF ~IsNaN(best_rssi) /\ ~Gt(Num(emitter.classify_rssi), best_rssi)
    THEN Some(reflector.class) ELSE None

\* if best_rssi > emitter.classify_rssi { Some(reflector.class) } else { None }
Classify(emitter, reflector, best_rssi) ==
    IF Gt(best_rssi, Num(emitter.classify_rssi)) THEN Some(reflector.class) ELSE None

\* best_reflector.map(|reflector| ScanResult { ... })
ScanResult(emitter, reflectors, sel, rng) ==
    IF sel.best_reflector = 0 THEN None
    ELSE LET reflector == reflectors[sel.best_reflector]
             n1 == noise(rng, sel.best_rssi)
             n2 == noise(n1.rng, sel.best_rssi)
         IN Some([class |-> Classify(emitter, reflector, sel.best_rssi),
                  position |-> [true |-> reflector.position, noise |-> n1.vector],
                  velocity |-> [true |-> reflector.velocity, noise |-> n2.vector]])

\* Mutant of WriteResult: the result is stored in every radar of the registry.
WriteResultAll(acc, handle, emitter, result) ==
    [acc EXCEPT
        !.ships = [g \in DOMAIN acc.ships |->
                     IF IsSome(acc.ships[g].radar)
                     THEN [acc.ships[g] EXCEPT !.radar[1].result = result]
                     ELSE acc.ships[g]],
        !.result_writes = [g \in DOMAIN acc.ships |->
                     IF IsSome(acc.ships[g].radar)
                     THEN Append(acc.result_writes[g],
                                 [by |-> handle,
                                  over |-> IsSome(Unwrap(acc.ships[g].radar).result)])
                     ELSE acc.result_writes[g]]]

\* Mutant of WriteResult: an absent result is not stored, the old one stays.
WriteResultIfSome(acc, handle, emitter, result) ==
    IF result = None THEN acc
    ELSE [acc EXCEPT !.ships[emitter.handle].radar[1].result = result,
                     !.result_writes[emitter.handle] =
                         Append(@, [by |-> handle,
                                    over |-> IsSome(Unwrap(acc.ships[emitter.handle].radar).result)])]

\* Mutant of WriteResult: the write also clamps the stored width to a full turn.
WriteResultClampsWidth(acc, handle, emitter, result) ==
    [acc EXCEPT !.ships[emitter.handle].radar[1].result = result,
                !.ships[emitter.handle].radar[1].width = IF @ > TAU THEN TAU ELSE @,
                !.result_writes[emitter.handle] =
                    Append(@, [by |-> handle,
                               over |-> IsSome(Unwrap(acc.ships[emitter.handle].radar).result)])]

\* sim.ship_mut(emitter.handle).data_mut().radar.as_mut().unwrap().result = result
\* made by the pass of `handle`.  result_writes logs, per written ship, the pass
\* that wrote it and whether the write replaced a present result.
WriteResult(acc, handle, emitter, result) ==
    [acc EXCEPT !.ships[emitter.handle].radar[1].result = result,
                !.result_writes[emitter.handle] =
                    Append(@, [by |-> handle,
                               over |-> IsSome(Unwrap(acc.ships[emitter.handle].radar).result)])]

\* The lines draw_emitter hands to sim.emit_debug_lines: n arc segments and the
\* two edges.  An end point is kept as its polar form about the centre (range
\* squared, and the angle start_bearing + w * i / n as <<start_bearing, w, i>>).
draw_emitter(emitter) ==
    LET w == emitter.end_bearing - emitter.start_bearing
        center == emitter.center
        r_sq == compute_approx_range_sq(emitter)
        arc == [i \in 1..n |-> [a |-> [center |-> center, r_sq |-> r_sq,
                                       angle |-> <<emitter.start_bearing, w, i - 1>>],
                                b |-> [center |-> center, r_sq |-> r_sq,
                                       angle |-> <<emitter.start_bearing, w, i>>]]]
        edge0 == [a |-> center,
                  b |-> [center |-> center, r_sq |-> r_sq,
                         angle |-> <<emitter.start_bearing, w, 0>>]]
        edge1 == [a |-> center,
                  b |-> [center |-> center, r_sq |-> r_sq,
                         angle |-> <<emitter.start_bearing, w, n>>]]
    IN Append(Append(arc, edge0), edge1)

\* One pass of the body of `for handle in handle_snapshot` for one handle.
EvalHandle(acc, reflectors, handle, t) ==
    IF ~IsSome(acc.ships[handle].radar) THEN acc
    ELSE LET emitter == RadarEmitter(acc.ships, handle)
             rng == new_rng(t)
             sel == Select(emitter, reflectors)
             result == ScanResult(emitter, reflectors, sel, rng)
             written == WriteResult(acc, handle, emitter, result)
         IN [written EXCEPT
                !.debug_lines[handle] = Len(draw_emitter(emitter)),
                !.best_reflector[handle] =
                    IF sel.best_reflector = 0 THEN 0
                    ELSE acc.handle_snapshot[sel.best_reflector]]

RECURSIVE TickLoop(_, _, _, _, _)
TickLoop(acc, reflectors, order, i, t) ==
    IF i > Len(order) THEN acc
    ELSE TickLoop(EvalHandle(acc, reflectors, order[i], t), reflectors, order, i + 1, t)

\* tick(sim), with the emitters visited in `order` (the source visits them in
\* handle_snapshot order).
TickIn(registry, lines, t, order) ==
    LET handle_snapshot == HandleSnapshot(registry)
        reflectors == Reflectors(registry, handle_snapshot)
        acc0 == [ships |-> registry,
                 debug_lines |-> lines,
                 best_reflector |-> [h \in DOMAIN registry |-> 0],
                 result_writes |-> [h \in DOMAIN registry |-> <<>>],
                 handle_snapshot |-> handle_snapshot]
    IN TickLoop(acc0, reflectors, order, 1, t)

\* pub fn scan(sim, own_ship) -> Option<ScanResult>
scan(registry, own_ship) ==
    IF IsSome(registry[own_ship].radar) THEN Unwrap(registry[own_ship].radar).result ELSE None

\* ----------------------------------------------------------------- actions
\* One simulation step's call of tick(sim); the step then advances sim.tick().
Tick ==
    /\ tick < MaxTick
    /\ LET out == TickIn(ships, debug_lines, tick, HandleSnapshot(ships))
       IN /\ ships' = out.ships
          /\ debug_lines' = out.debug_lines
          /\ best_reflector' = out.best_reflector
          /\ result_writes' = out.result_writes
    /\ tick' = tick + 1
    /\ scanned' = None

Scan ==
    \E h \in Handles :
        /\ scanned' = Some([own_ship |-> h, value |-> scan(ships, h)])
        /\ UNCHANGED <<ships, tick, debug_lines, best_reflector, result_writes>>

\* Control code between ticks: radar_mut().unwrap().heading = a
SetHeading ==
    \E h \in Controlled, a \in CtlHeadings :
        /\ IsSome(ships[h].radar)
        /\ ships' = [ships EXCEPT ![h].radar[1].heading = a]
        /\ UNCHANGED <<tick, debug_lines, best_reflector, result_writes, scanned>>

SetWidth ==
    \E h \in Controlled, w \in Widths :
        /\ IsSome(ships[h].radar)
        /\ ships' = [ships EXCEPT ![h].radar[1].width = w]
        /\ UNCHANGED <<tick, debug_lines, best_reflector, result_writes, scanned>>

SetMinRssi ==
    \E h \in Controlled, m \in {1, 2} :
        /\ IsSome(ships[h].radar)
        /\ ships' = [ships EXCEPT ![h].radar[1].min_rssi = m]
        /\ UNCHANGED <<tick, debug_lines, best_reflector, result_writes, scanned>>

\* body().set_translation(p, true) on a ship
SetTranslation ==
    \E h \in Moved, p \in Waypoints :
        /\ ships' = [ships EXCEPT ![h].position = p]
        /\ UNCHANGED <<tick, debug_lines, best_reflector, result_writes, scanned>>

\* ---------------------------------------------------------------- scenarios
Radar(heading, width, power, min_rssi, classify_rssi) ==
    [heading |-> heading, width |-> width, power |-> power,
     rx_cross_section |-> 1, min_rssi |-> min_rssi,
     classify_rssi |-> classify_rssi, result |-> None]

Ship(team, class, position, heading, rcs, radar) ==
    [team |-> team, class |-> class, position |-> position,
     velocity |-> <<0, 0>>, heading |-> heading,
     radar_cross_section |-> rcs, radar |-> radar]

Init ==
    /\ \E t3 \in {0, 1} :
          ships = << Ship(0, "Fighter", <<0, 0>>, 0, 1, Some(Radar(0, TAU, 128, 1, 4))),
                     Ship(1, "Frigate", <<1, 0>>, 0, 1, Some(Radar(0, TAU, 128, 1, 4))),
                     Ship(t3, "Target", <<0, 1>>, 0, 2, None) >>
    /\ tick = 0
    /\ debug_lines = [h \in 1..3 |-> 0]
    /\ best_reflector = [h \in 1..3 |-> 0]
    /\ result_writes = [h \in 1..3 |-> <<>>]
    /\ scanned = None

Next == Tick \/ Scan \/ SetHeading \/ SetWidth \/ SetMinRssi \/ SetTranslation

Spec == Init /\ [][Next]_vars

\* test_random: one fighter and one target of the other team, with sampled
\* positions, heading and width.
InitBeam ==
    /\ \E p0 \in Points, p1 \in Points, h \in Bearings, w \in Widths, m \in {1, 4} :
          ships = << Ship(0, "Fighter", p0, h, 1, Some(Radar(0, w, 1024, m, 16))),
                     Ship(1, "Target", p1, 0, 1, None) >>
    /\ tick = 0
    /\ debug_lines = [h \in 1..2 |-> 0]
    /\ best_reflector = [h \in 1..2 |-> 0]
    /\ result_writes = [h \in 1..2 |-> <<>>]
    /\ scanned = None

NextBeam == Tick \/ Scan

SpecBeam == InitBeam /\ [][NextBeam]_vars

\* ================================================================== claims
Radars == {h \in Handles : IsSome(ships[h].radar)}
RadarOf(registry, h) == Unwrap(registry[h].radar)
\* A step of tick: the only action that advances the tick index.
TickStep == tick' # tick
\* The handle's intensity at a reflector, from the registry given.
RssiOf(registry, h, r) ==
    compute_rssi(RadarEmitter(registry, h), RadarReflector(registry[r]))
\* The three conditions of a detection candidate, stated on the registry.
Qualifies(registry, h, r) ==
    /\ registry[r].team # registry[h].team
    /\ check_inside_beam(RadarEmitter(registry, h), registry[r].position)
    /\ Gt(RssiOf(registry, h, r), Num(RadarOf(registry, h).min_rssi))
Candidates(registry, h) == {r \in DOMAIN registry : Qualifies(registry, h, r)}
\* The reference choice: a candidate no candidate exceeds, and the first such.
RefChoice(registry, h) ==
    LET Q == Candidates(registry, h)
        Top == {r \in Q : \A q \in Q : ~Gt(RssiOf(registry, h, q), RssiOf(registry, h, r))}
    IN IF Top = {} THEN 0 ELSE CHOOSE r \in Top : \A q \in Top : r <= q

RECURSIVE Perms(_)
Perms(S) ==
    IF S = {} THEN {<<>>}
    ELSE UNION {{<<x>> \o rest : rest \in Perms(S \ {x})} : x \in S}

\* C1: what a tick leaves for an emitter is what that emitter's pass alone
\* yields on the registry as it was when the tick began (no earlier pass's
\* write changes it), and the registry and the outcomes the tick leaves are
\* the same for every order in which the emitters are processed.
C1_SnapshotOrderIndependent ==
    [][TickStep =>
        /\ \A h \in Radars :
              LET alone == TickIn(ships, debug_lines, tick, <<h>>)
              IN /\ alone.ships[h] = ships'[h]
                 /\ alone.best_reflector[h] = best_reflector'[h]
        /\ \A o \in Perms(Handles) :
              LET out == TickIn(ships, debug_lines, tick, o)
              IN /\ out.ships = ships'
                 /\ out.best_reflector = best_reflector']_vars

\* C1 witness: two emitters both hold a result after a tick, the second
\* processed after the first one's write.
C1_Witness ==
    /\ tick > 0
    /\ Cardinality({h \in Radars : IsSome(RadarOf(ships, h).result)}) >= 2

\* C2: a stored result never describes an agent of the emitter's own team,
\* the emitter included.
C2_NeverOwnTeam ==
    \A h \in Radars :
        IsSome(RadarOf(ships, h).result) =>
            /\ best_reflector[h] \in Handles \ {h}
            /\ ships[best_reflector[h]].team # ships[h].team
            /\ LET res == Unwrap(RadarOf(ships, h).result)
               IN IsSome(res.class) => Unwrap(res.class) = ships[best_reflector[h]].class

\* C2 witness: an emitter holds a result although a teammate inside its beam
\* returns a stronger signal than the agent the result describes.
C2_Witness ==
    \E h \in Radars : \E m \in Handles \ {h} :
        /\ IsSome(RadarOf(ships, h).result)
        /\ best_reflector[h] # 0
        /\ ships[m].team = ships[h].team
        /\ check_inside_beam(RadarEmitter(ships, h), ships[m].position)
        /\ Gt(RssiOf(ships, h, m), RssiOf(ships, h, best_reflector[h]))
        /\ Unwrap(RadarOf(ships, h).result).position.noise.scale
               = Recip(RssiOf(ships, h, best_reflector[h]))

\* C4: after a tick scan returns that tick's outcome for every agent (absent
\* when no candidate qualified, whatever was stored before, and absent for an
\* agent without a radar), and a call of scan returns the stored result and
\* changes nothing.
C4_ScanIsLatestTick ==
    [][/\ TickStep =>
            \A h \in Handles :
                LET got == scan(ships', h)
                    b == IF h \in Radars THEN RefChoice(ships, h) ELSE 0
                IN /\ IsSome(got) <=> b # 0
                   /\ b # 0 =>
                        /\ Unwrap(got).position.true = ships[b].position
                        /\ Unwrap(got).velocity.true = ships[b].velocity
                        /\ Unwrap(got).position.noise.seed = tick
                        /\ Unwrap(got).position.noise.scale = Recip(RssiOf(ships, h, b))
       /\ ~TickStep /\ scanned' # scanned =>
            /\ IsSome(scanned')
            /\ Unwrap(scanned').value = scan(ships, Unwrap(scanned').own_ship)
            /\ UNCHANGED <<ships, tick, debug_lines, best_reflector, result_writes>>]_vars

\* C4 witness: the last tick wrote absent over a present result, and scan has
\* returned absent for that agent since.
C4_Witness ==
    \E h \in Radars :
        /\ result_writes[h] = <<[by |-> h, over |-> TRUE]>>
        /\ RadarOf(ships, h).result = None
        /\ scanned = Some([own_ship |-> h, value |-> None])

\* C5: a tick that leaves a result reveals the class exactly when the winning
\* intensity strictly exceeds classify_rssi, and reports the winner's position
\* and velocity whenever the winning intensity strictly exceeds min_rssi.
C5_ClassIffAboveClassify ==
    [][TickStep =>
        \A h \in Radars :
            LET b == best_reflector'[h]
                res == RadarOf(ships', h).result
            IN /\ IsSome(res) <=> b # 0
               /\ b # 0 =>
                    /\ Gt(RssiOf(ships, h, b), Num(RadarOf(ships, h).min_rssi))
                    /\ IsSome(Unwrap(res).class)
                         <=> Gt(RssiOf(ships, h, b), Num(RadarOf(ships, h).classify_rssi))
                    /\ Unwrap(res).position.true = ships[b].position
                    /\ Unwrap(res).velocity.true = ships[b].velocity]_vars

\* C5 witness: a result without class whose winning intensity equals
\* classify_rssi exactly.
C5_Witness ==
    \E h \in Radars :
        LET res == RadarOf(ships, h).result
            b == best_reflector[h]
        IN /\ IsSome(res) /\ b # 0
           /\ Unwrap(res).class = None
           /\ Unwrap(res).position.noise.scale = Recip(RssiOf(ships, h, b))
           /\ RssiOf(ships, h, b).den # 0
           /\ RssiOf(ships, h, b).num
                = RadarOf(ships, h).classify_rssi * RssiOf(ships, h, b).den

\* C6: with width >= TAU the containment test is true of every point, and the
\* tick leaves a result exactly when some agent of another team returns an
\* intensity strictly above min_rssi, whatever its bearing and the heading.
C6_FullCircle ==
    [][TickStep =>
        \A h \in Radars :
            RadarOf(ships, h).width >= TAU =>
                /\ \A p \in Points : check_inside_beam(RadarEmitter(ships, h), p)
                /\ IsSome(RadarOf(ships', h).result)
                     <=> \E r \in Handles :
                            /\ ships[r].team # ships[h].team
                            /\ Gt(RssiOf(ships, h, r), Num(RadarOf(ships, h).min_rssi))]_vars

\* C6 witness: an emitter wider than a full turn holds a result for a target
\* that lies behind its heading.
C6_Witness ==
    \E h \in Radars :
        LET b == best_reflector[h]
            em == RadarEmitter(ships, h)
        IN /\ em.width > TAU
           /\ IsSome(RadarOf(ships, h).result) /\ b # 0
           /\ Unwrap(RadarOf(ships, h).result).position.true = ships[b].position
           /\ LET dp == Sub(ships[b].position, em.center)
                  c == Ray(em.start_bearing + (em.width \div 2))
              IN dp[1] * c[1] + dp[2] * c[2] < 0

\* C7: a tick changes nothing of the registry but the result of each radar,
\* writes each radar's result once, in that agent's own pass, and writes
\* nothing for an agent without a radar.
C7_TickWritesOnlyResult ==
    [][TickStep =>
        /\ DOMAIN ships' = DOMAIN ships
        /\ \A h \in Handles :
              IF h \in Radars
              THEN /\ IsSome(ships'[h].radar)
                   /\ ships'[h] = [ships[h] EXCEPT !.radar[1].result = RadarOf(ships', h).result]
                   /\ Len(result_writes'[h]) = 1
                   /\ result_writes'[h][1].by = h
              ELSE /\ ships'[h] = ships[h]
                   /\ result_writes'[h] = <<>>]_vars

\* C7 witness: a tick has run on a registry that holds a radar with a
\* non-default heading and width and an agent without a radar.
C7_Witness ==
    /\ tick > 0
    /\ \E h \in Radars :
          /\ RadarOf(ships, h).heading # 0
          /\ RadarOf(ships, h).width \notin {0, TAU}
          /\ Len(result_writes[h]) = 1
    /\ \E g \in Handles : g \notin Radars

\* C8: the reflector a tick selects is the reference choice: the first, in
\* snapshot order, of the candidates of maximal intensity, and none when no
\* reflector is a candidate.
C8_SelectsFirstMaximum ==
    [][TickStep =>
        \A h \in Radars : best_reflector'[h] = RefChoice(ships, h)]_vars

\* C8 witness: two candidates tie at the maximum and the earlier one is the
\* one selected.
C8_Witness ==
    \E h \in Radars : \E r \in Handles :
        /\ best_reflector[h] # 0
        /\ r > best_reflector[h]
        /\ Qualifies(ships, h, r)
        /\ Qualifies(ships, h, best_reflector[h])
        /\ ~Gt(RssiOf(ships, h, r), RssiOf(ships, h, best_reflector[h]))
        /\ ~Gt(RssiOf(ships, h, best_reflector[h]), RssiOf(ships, h, r))
        /\ Unwrap(RadarOf(ships, h).result).position.true = ships[best_reflector[h]].position
        /\ Unwrap(RadarOf(ships, h).result).position.noise.scale
               = Recip(RssiOf(ships, h, best_reflector[h]))

\* C8, the threshold case reached: nothing is selected although the only
\* opposing reflector in the beam returns exactly min_rssi.
C8_ThresholdReached ==
    \E h \in Radars : \E r \in Handles :
        /\ tick > 0 /\ best_reflector[h] = 0
        /\ ships[r].team # ships[h].team
        /\ check_inside_beam(RadarEmitter(ships, h), ships[r].position)
        /\ RssiOf(ships, h, r).den # 0
        /\ RssiOf(ships, h, r).num = RadarOf(ships, h).min_rssi * RssiOf(ships, h, r).den

\* C9 as stated: two emitters evaluated in the same tick consume different
\* draws of the tick's stream.
C9_DrawsDifferByOrder ==
    \A h1 \in Radars : \A h2 \in Radars \ {h1} :
        LET r1 == RadarOf(ships, h1).result
            r2 == RadarOf(ships, h2).result
        IN IsSome(r1) /\ IsSome(r2) =>
              Unwrap(r1).position.noise.draws # Unwrap(r2).position.noise.draws

\* C9 amended: every emitter draws from a stream of its own, seeded from the
\* tick index: each result holds the stream's first two samples in its
\* position and the next two in its velocity, whatever the emitter's place in
\* the processing order.
C9_FreshStreamPerEmitter ==
    \A h \in Radars :
        LET res == RadarOf(ships, h).result
        IN IsSome(res) =>
              /\ Unwrap(res).position.noise.seed = tick - 1
              /\ Unwrap(res).velocity.noise.seed = tick - 1
              /\ Unwrap(res).position.noise.draws = <<1, 2>>
              /\ Unwrap(res).velocity.noise.draws = <<3, 4>>

\* C9 witness: two emitters hold a result of the second tick.
C9_Witness ==
    /\ tick = 2
    /\ \E h1 \in Radars : \E h2 \in Radars \ {h1} :
          /\ IsSome(RadarOf(ships, h1).result)
          /\ IsSome(RadarOf(ships, h2).result)

\* C10 as stated: the intensity with which a reflector of another team wins
\* the selection of an emitter of positive width is finite, a reflector at the
\* emitter's own position included.
C10_IntensityFinite ==
    \A h \in Radars : \A r \in Handles :
        /\ RadarOf(ships, h).width > 0
        /\ ships[r].team # ships[h].team
        /\ IsSome(RadarOf(ships, h).result)
        /\ best_reflector[h] = r
        /\ Unwrap(RadarOf(ships, h).result).position.noise.scale = Recip(RssiOf(ships, h, r))
        => IsFinite(RssiOf(ships, h, r))

Cross(a, b) == a[1] * b[2] - a[2] * b[1]

\* The analytic check of test_random: the absolute angle between the heading
\* vector c and dp is less than half_width eighths of a turn (half_width < 4).
AngleLess(dp, c, half_width) ==
    LET d == dp[1] * c[1] + dp[2] * c[2]
        n2 == dp[1] * dp[1] + dp[2] * dp[2]
        c2 == c[1] * c[1] + c[2] * c[2]
    IN CASE half_width = 0 -> FALSE
         [] half_width = 1 -> d > 0 /\ 2 * d * d > n2 * c2
         [] half_width = 2 -> d > 0
         [] half_width = 3 -> d >= 0 \/ 2 * d * d < n2 * c2

\* C3 as stated: for one emitter and one target of the other team within
\* intensity range, and a width below TAU (0 included), the tick leaves a
\* result exactly when the angle between the heading and the vector to the
\* target is less than half the width.  Stated for the targets that lie on
\* neither edge ray, where exact and f64 arithmetic agree.
C3_DetectedIffInsideSector ==
    [][TickStep =>
        \A h \in Radars : \A r \in Handles :
            LET em == RadarEmitter(ships, h)
                dp == Sub(ships[r].position, em.center)
            IN /\ ships[r].team # ships[h].team
               /\ em.width < TAU
               /\ dp # <<0, 0>>
               /\ Cross(Ray(em.start_bearing), dp) # 0
               /\ Cross(Ray(em.end_bearing), dp) # 0
               /\ Gt(RssiOf(ships, h, r), Num(em.min_rssi))
               => (IsSome(RadarOf(ships', h).result)
                     <=> AngleLess(dp, Ray(em.start_bearing + (em.width \div 2)),
                                   em.width \div 2))]_vars

====
